---- MODULE Spec2Model ----
\* A model of the flint Discord bot (src/src/lib.rs): the ?eval command
\* handler, the message_update (edit) handler, the compile pipeline they
\* share, and the reply table BotData (HashMap<MessageId, MessageId> behind
\* an RwLock, itself stored in ctx.data behind another RwLock).
\*
\* Texts are sequences of one-character strings; "bt" is a backtick, "nl" a
\* newline and "sp" a space.
EXTENDS Integers, Sequences, FiniteSets, TLC

VARIABLES
    task,          \* task id -> the handler invocation's local state
    table,         \* BotData: the HashMap, as a set of <<key, value>> pairs
    dataReaders,   \* tasks holding a read guard of ctx.data
    tableReaders,  \* tasks holding a read guard of the table's RwLock
    tableWriter,   \* tasks holding the write guard of the table's RwLock
    channel        \* the bot's messages in the channel: id -> [replyTo, content]

vars == <<task, table, dataReaders, tableReaders, tableWriter, channel>>

----------------------------------------------------------------------------
\* Bounds

MaxEvents == 3  \* gateway events handled (new ?eval messages and edits)
MaxBody == 7    \* length of the enumerated message remainders (SpecPipe)
MaxOut == 2     \* bytes the guest writes to its stdout (SpecRun)
MaxFair == 2    \* handlers that run under fair scheduling (SpecFair)

----------------------------------------------------------------------------
\* Option and Result values

None == <<"None">>
Some(x) == <<"Some", x>>
IsSome(o) == o[1] = "Some"
Ok(x) == <<"Ok", x>>
Err(e) == <<"Err", e>>
IsOk(r) == r[1] = "Ok"

----------------------------------------------------------------------------
\* Text literals of the source

EvalPrefix == <<"?", "e", "v", "a", "l">>
Fence == <<"bt", "bt", "bt">>
ResultHead ==
    <<"C", "o", "m", "p", "i", "l", "a", "t", "i", "o", "n", "sp",
      "r", "e", "s", "u", "l", "t", ":", "nl", "bt", "bt", "bt", "nl">>
ErrorHead ==
    <<"C", "o", "m", "p", "i", "l", "a", "t", "i", "o", "n", "sp",
      "e", "r", "r", "o", "r", ":", "nl", "bt", "bt", "bt", "nl">>
FenceTail == <<"nl", "bt", "bt", "bt">>
ParseError ==
    <<"F", "a", "i", "l", "e", "d", "sp", "t", "o", "sp", "p", "a", "r", "s",
      "e", "sp", "a", "sp", "c", "o", "d", "e", "sp", "b", "l", "o", "c", "k">>
ContentError ==
    <<"F", "a", "i", "l", "e", "d", "sp", "t", "o", "sp", "g", "e", "t", "sp",
      "t", "h", "e", "sp", "m", "s", "g", "sp", "c", "o", "n", "t", "e", "n", "t">>

Whitespace == {"sp", "nl"}

----------------------------------------------------------------------------
\* str::strip_prefix, str::trim_start, str::strip_suffix

StripPrefix(s, p) ==
    IF Len(s) >= Len(p) /\ SubSeq(s, 1, Len(p)) = p
    THEN Some(SubSeq(s, Len(p) + 1, Len(s)))
    ELSE None

StripSuffix(s, p) ==
    IF Len(s) >= Len(p) /\ SubSeq(s, Len(s) - Len(p) + 1, Len(s)) = p
    THEN Some(SubSeq(s, 1, Len(s) - Len(p)))
    ELSE None

RECURSIVE TrimStart(_)
TrimStart(s) ==
    IF s # <<>> /\ Head(s) \in Whitespace THEN TrimStart(Tail(s)) ELSE s

StripFenceOpen(s) == StripPrefix(s, Fence)
\* a variant of StripFenceClose that does not look at the end of the text
StripFenceClose_unchecked(s) == Some(s)
StripFenceClose(s) == StripSuffix(s, Fence)

\* a variant of Trimmed that also trims the whitespace at the start of the
\* source between the fences
Trimmed_trimsSource(msg) ==
    LET stripped == StripPrefix(msg, EvalPrefix)
        started == IF IsSome(stripped) THEN Some(TrimStart(stripped[2])) ELSE None
        opened == IF IsSome(started) THEN StripFenceOpen(started[2]) ELSE None
        closed == IF IsSome(opened) THEN StripFenceClose(opened[2]) ELSE None
    IN  IF IsSome(closed) THEN Some(TrimStart(closed[2])) ELSE None

\* compile, lines 137-142: the chain that extracts the fenced source
\* (Option::map and Option::and_then pass a None on)
Trimmed(msg) ==
    LET stripped == StripPrefix(msg, EvalPrefix)
        started == IF IsSome(stripped) THEN Some(TrimStart(stripped[2])) ELSE None
        opened == IF IsSome(started) THEN StripFenceOpen(started[2]) ELSE None
    IN  IF IsSome(opened) THEN StripFenceClose(opened[2]) ELSE None

\* a variant of compile_otput that drops one newline at the end of the text
compile_otput_trimmed(res) ==
    LET text == IF res[2] # <<>> /\ res[2][Len(res[2])] = "nl"
                THEN SubSeq(res[2], 1, Len(res[2]) - 1)
                ELSE res[2]
    IN  IF IsOk(res)
        THEN ResultHead \o text \o FenceTail
        ELSE ErrorHead \o text \o FenceTail

\* a variant of compile_otput with the two templates exchanged
compile_otput_swapped(res) ==
    IF IsOk(res)
    THEN ErrorHead \o res[2] \o FenceTail
    ELSE ResultHead \o res[2] \o FenceTail

\* compile_otput, lines 130-133: the two format! templates
compile_otput(res) ==
    IF IsOk(res)
    THEN ResultHead \o res[2] \o FenceTail
    ELSE ErrorHead \o res[2] \o FenceTail

----------------------------------------------------------------------------
\* The external collaborators' possible answers

CompileErrors == {<<"u", "n", "e", "x">>}     \* ashfire::compile_buffer Err
RunErrors == {<<"t", "r", "a", "p">>}         \* wasmtime Err (link, entry, trap)
Captured == {<<"h", "i", "nl">>, <<>>, Fence} \* guest stdout, decoded
TransportError == <<"h", "t", "t", "p">>      \* serenity Err of reply / edit

Bytecode == <<"w", "a", "t">>
PipeCompilerAnswers == {Ok(Bytecode)} \cup {Err(e) : e \in CompileErrors}
PipeSandboxAnswers == {Ok(c) : c \in Captured} \cup {Err(e) : e \in RunErrors}
\* the answers drawn where handlers interleave
CompilerAnswers == {Ok(Bytecode)}
SandboxAnswers == {Ok(<<"h", "i", "nl">>)} \cup {Err(e) : e \in RunErrors}

\* a variant of compile that calls the compiler before it looks at the
\* result of the extraction
compile_compilesFirst(msg, cr, rr) ==
    LET trimmed == Trimmed(msg)
    IN  IF ~IsSome(trimmed)
        THEN [res |-> Err(ParseError),
              stages |-> << <<"compile_buffer", cr>>,
                            <<"extract", Err(ParseError)>> >>]
        ELSE IF ~IsOk(cr)
        THEN [res |-> cr,
              stages |-> << <<"compile_buffer", cr>>,
                            <<"extract", Ok(trimmed[2])>> >>]
        ELSE [res |-> rr,
              stages |-> << <<"compile_buffer", cr>>,
                            <<"extract", Ok(trimmed[2])>>, <<"run", rr>> >>]

\* compile, lines 136-151: extraction, then ashfire::compile_buffer (whose
\* answer is cr), then run (whose answer is rr); each ? returns the first Err.
\* stages lists the stages entered, in order, each with its result.
compile(msg, cr, rr) ==
    LET trimmed == Trimmed(msg)
    IN  IF ~IsSome(trimmed)
        THEN [res |-> Err(ParseError),
              stages |-> << <<"extract", Err(ParseError)>> >>]
        ELSE IF ~IsOk(cr)
        THEN [res |-> cr,
              stages |-> << <<"extract", Ok(trimmed[2])>>,
                            <<"compile_buffer", cr>> >>]
        ELSE [res |-> rr,
              stages |-> << <<"extract", Ok(trimmed[2])>>,
                            <<"compile_buffer", cr>>, <<"run", rr>> >>]

----------------------------------------------------------------------------
\* Message texts the gateway delivers

TextA == EvalPrefix \o <<"nl">> \o Fence \o <<"x">> \o Fence
TextB == EvalPrefix \o <<"sp">> \o Fence \o <<"y">> \o Fence
TextNoFence == EvalPrefix \o <<"sp", "x">>
NewTexts == {TextA}
EditTexts == {TextB}

\* every text of up to n characters over a three-letter alphabet
RECURSIVE Strs(_)
Strs(n) ==
    IF n = 0 THEN {<<>>}
    ELSE LET shorter == Strs(n - 1)
         IN  shorter \cup {Append(s, c) : s \in shorter, c \in {"bt", "x", "sp"}}

Gaps == {<<>>, <<"nl">>, <<"nl", "sp">>}
PipeNewTexts == {EvalPrefix \o g \o b : g \in Gaps, b \in Strs(MaxBody)}
PipeTexts == PipeNewTexts \cup {g \o b : g \in Gaps, b \in Strs(MaxBody)}

----------------------------------------------------------------------------
\* Tasks: one handler invocation per gateway event, in arrival order

OtherMsg == 0                       \* a message that never was a command
Tasks == 1 .. MaxEvents

IdleTask ==
    [pc |-> "idle", kind |-> "none", msg |-> OtherMsg, content |-> None,
     answered |-> FALSE, found |-> None, stages |-> <<>>, res |-> None,
     output |-> <<>>, reply |-> None, log |-> <<>>, calls |-> <<>>,
     logged |-> None,
     sandbox |-> [plan |-> <<>>, refs |-> 0, store |-> FALSE, sink |-> <<>>]]

\* HashMap::get(..).copied() and HashMap::insert
Get(t, k) ==
    IF \E p \in t : p[1] = k
    THEN Some((CHOOSE p \in t : p[1] = k)[2])
    ELSE None
\* a variant of Insert that keeps no other entry
Insert_clobber(t, k, v) == {<<k, v>>}
Insert(t, k, v) == {p \in t : p[1] # k} \cup {<<k, v>>}

\* the id the transport gives to the next message the bot posts
NextId == MaxEvents + Cardinality(DOMAIN channel) + 1
RepliesTo(m) == {r \in DOMAIN channel : channel[r].replyTo = m}

Init ==
    /\ task = [t \in Tasks |-> IdleTask]
    /\ table = {}
    /\ dataReaders = {}
    /\ tableReaders = {}
    /\ tableWriter = {}
    /\ channel = <<>>

\* compile_otput, lines 129-134, as the handlers call it: the pipeline runs
\* without an await, and its text goes to the transport call that follows
Compiled(tk, msg, cr, rr) ==
    LET c == compile(msg, cr, rr)
    IN  [tk EXCEPT !.res = c.res, !.stages = c.stages,
                   !.output = compile_otput(c.res),
                   !.log = tk.log \o [i \in 1 .. Len(c.stages) |-> c.stages[i][1]]
                                 \o <<"format">>,
                   !.pc = "send"]

----------------------------------------------------------------------------
\* eval, lines 94-111

\* the framework dispatches a new "?eval..." message, whose id is new, to
\* eval, which runs compile_otput (line 98) up to its first await
EvalStartWith(t, c, cr, rr) ==
    /\ task[t].pc = "idle"
    /\ \A u \in Tasks : u < t => task[u].pc # "idle"
    /\ task' = [task EXCEPT ![t] =
            Compiled([IdleTask EXCEPT !.kind = "eval", !.msg = t,
                                      !.content = Some(c)],
                     c, cr, rr)]
    /\ UNCHANGED <<table, dataReaders, tableReaders, tableWriter, channel>>

EvalStart(t) ==
    /\ task[t].pc = "idle"
    /\ \E c \in NewTexts, cr \in CompilerAnswers, rr \in SandboxAnswers :
            EvalStartWith(t, c, cr, rr)

\* a variant of EvalSend that sends nothing when the extraction failed
EvalSend_silent(t) ==
    /\ task[t].kind = "eval"
    /\ task[t].pc = "send"
    /\ LET tk == task[t]
           call == <<"reply", tk.msg, tk.output>>
       IN  IF tk.res = Err(ParseError)
           THEN /\ channel' = channel
                /\ task' = [task EXCEPT ![t] = [tk EXCEPT !.pc = "done"]]
           ELSE /\ channel' = channel @@
                    (NextId :> [replyTo |-> tk.msg, content |-> tk.output])
                /\ task' = [task EXCEPT ![t] =
                    [tk EXCEPT !.reply = Some(NextId), !.pc = "lockData",
                               !.log = tk.log \o <<"reply">>,
                               !.calls = tk.calls \o <<call>>]]
    /\ UNCHANGED <<table, dataReaders, tableReaders, tableWriter>>

\* a variant of EvalSend that stays at the call when it failed
EvalSend_retry(t) ==
    /\ task[t].kind = "eval"
    /\ task[t].pc = "send"
    /\ LET tk == task[t]
           call == <<"reply", tk.msg, tk.output>>
       IN  \/ /\ channel' = channel @@
                    (NextId :> [replyTo |-> tk.msg, content |-> tk.output])
              /\ task' = [task EXCEPT ![t] =
                    [tk EXCEPT !.reply = Some(NextId), !.pc = "lockData",
                               !.log = tk.log \o <<"reply">>,
                               !.calls = tk.calls \o <<call>>]]
           \/ /\ channel' = channel
              /\ tk.logged = None
              /\ task' = [task EXCEPT ![t] =
                    [tk EXCEPT !.log = tk.log \o <<"reply">>,
                               !.calls = tk.calls \o <<call>>,
                               !.logged = Some(TransportError)]]
    /\ UNCHANGED <<table, dataReaders, tableReaders, tableWriter>>

\* line 99: msg.reply(ctx, output).await?
EvalSend(t) ==
    /\ task[t].kind = "eval"
    /\ task[t].pc = "send"
    /\ LET tk == task[t]
           call == <<"reply", tk.msg, tk.output>>
       IN  \/ /\ channel' = channel @@
                    (NextId :> [replyTo |-> tk.msg, content |-> tk.output])
              /\ task' = [task EXCEPT ![t] =
                    [tk EXCEPT !.reply = Some(NextId), !.pc = "lockData",
                               !.log = tk.log \o <<"reply">>,
                               !.calls = tk.calls \o <<call>>]]
           \/ /\ channel' = channel
              /\ task' = [task EXCEPT ![t] =
                    [tk EXCEPT !.pc = "done",
                               !.log = tk.log \o <<"reply">>,
                               !.calls = tk.calls \o <<call>>,
                               !.logged = Some(TransportError)]]
    /\ UNCHANGED <<table, dataReaders, tableReaders, tableWriter>>

\* line 102: ctx.data.read().await
EvalLockData(t) ==
    /\ task[t].kind = "eval"
    /\ task[t].pc = "lockData"
    /\ dataReaders' = dataReaders \cup {t}
    /\ task' = [task EXCEPT ![t].pc = "lockTable"]
    /\ UNCHANGED <<table, tableReaders, tableWriter, channel>>

\* line 106: data_lock.write().await
EvalLockTable(t) ==
    /\ task[t].kind = "eval"
    /\ task[t].pc = "lockTable"
    /\ tableReaders = {}
    /\ tableWriter = {}
    /\ tableWriter' = {t}
    /\ task' = [task EXCEPT ![t].pc = "insert"]
    /\ UNCHANGED <<table, dataReaders, tableReaders, channel>>

\* a variant of EvalInsert with the arguments of insert exchanged
EvalInsert_swapped(t) ==
    /\ task[t].kind = "eval"
    /\ task[t].pc = "insert"
    /\ table' = Insert(table, task[t].reply[2], task[t].msg)
    /\ tableWriter' = tableWriter \ {t}
    /\ dataReaders' = dataReaders \ {t}
    /\ task' = [task EXCEPT ![t] =
            [@ EXCEPT !.pc = "done", !.log = @ \o <<"insert">>]]
    /\ UNCHANGED <<tableReaders, channel>>

\* a variant of EvalInsert whose guards are never dropped
EvalInsert_keepsGuards(t) ==
    /\ task[t].kind = "eval"
    /\ task[t].pc = "insert"
    /\ table' = Insert(table, task[t].msg, task[t].reply[2])
    /\ task' = [task EXCEPT ![t] =
            [@ EXCEPT !.pc = "done", !.log = @ \o <<"insert">>]]
    /\ UNCHANGED <<dataReaders, tableReaders, tableWriter, channel>>

\* lines 107-110: hashmap.insert(msg.id, reply.id); the guards drop; Ok(())
EvalInsert(t) ==
    /\ task[t].kind = "eval"
    /\ task[t].pc = "insert"
    /\ table' = Insert(table, task[t].msg, task[t].reply[2])
    /\ tableWriter' = tableWriter \ {t}
    /\ dataReaders' = dataReaders \ {t}
    /\ task' = [task EXCEPT ![t] =
            [@ EXCEPT !.pc = "done", !.log = @ \o <<"insert">>]]
    /\ UNCHANGED <<tableReaders, channel>>

----------------------------------------------------------------------------
\* Bot::message_update, lines 33-48, and edit, lines 113-127

\* the gateway delivers an edit of message m with content c (None or Some)
EditStartWith(t, m, c) ==
    /\ task[t].pc = "idle"
    /\ \A u \in Tasks : u < t => task[u].pc # "idle"
    /\ task' = [task EXCEPT ![t] =
            [IdleTask EXCEPT !.kind = "edit", !.pc = "lockData", !.msg = m,
                             !.content = c, !.answered = (RepliesTo(m) # {})]]
    /\ UNCHANGED <<table, dataReaders, tableReaders, tableWriter, channel>>

EditStart(t) ==
    /\ task[t].pc = "idle"
    /\ \E m \in {OtherMsg} \cup {e \in Tasks : task[e].kind = "eval"},
          c \in {None} \cup {Some(x) : x \in EditTexts} :
            EditStartWith(t, m, c)

\* line 35: ctx.data.read().await
EditLockData(t) ==
    /\ task[t].kind = "edit"
    /\ task[t].pc = "lockData"
    /\ dataReaders' = dataReaders \cup {t}
    /\ task' = [task EXCEPT ![t].pc = "lockTable"]
    /\ UNCHANGED <<table, tableReaders, tableWriter, channel>>

\* a variant of EditLockTable that does not wait for the writer
EditLockTable_nolock(t) ==
    /\ task[t].kind = "edit"
    /\ task[t].pc = "lockTable"
    /\ tableReaders' = tableReaders \cup {t}
    /\ task' = [task EXCEPT ![t].pc = "get"]
    /\ UNCHANGED <<table, dataReaders, tableWriter, channel>>

\* line 39: data_lock.read().await
EditLockTable(t) ==
    /\ task[t].kind = "edit"
    /\ task[t].pc = "lockTable"
    /\ tableWriter = {}
    /\ tableReaders' = tableReaders \cup {t}
    /\ task' = [task EXCEPT ![t].pc = "get"]
    /\ UNCHANGED <<table, dataReaders, tableWriter, channel>>

\* a variant of EditCompiled that takes a missing content for an empty text
EditCompiled_emptyContent(tk, cr, rr) ==
    Compiled(tk, IF IsSome(tk.content) THEN tk.content[2] ELSE <<>>, cr, rr)

\* edit, lines 114-121, up to its await: the missing content is an Err that
\* message_update logs (line 45); otherwise compile_otput runs
EditCompiled(tk, cr, rr) ==
    IF IsSome(tk.content)
    THEN Compiled(tk, tk.content[2], cr, rr)
    ELSE [tk EXCEPT !.pc = "done", !.logged = Some(ContentError)]

\* what a get of key k returns: the RwLock keeps writers out while a read
\* guard is held; a get that ran while a writer held the map would be a data
\* race, which may return anything
AnyId == 0 .. (2 * MaxEvents)
TableRead(k) ==
    IF tableWriter # {}
    THEN {None} \cup {Some(i) : i \in AnyId}
    ELSE {Get(table, k)}

\* a variant of EditGetWith that calls edit whatever the lookup returned
EditGetWith_always(t, cr, rr) ==
    /\ task[t].kind = "edit"
    /\ task[t].pc = "get"
    /\ \E got \in TableRead(task[t].msg) :
        LET tk == [task[t] EXCEPT !.found = got, !.log = @ \o <<"get">>]
        IN  task' = [task EXCEPT ![t] = EditCompiled(tk, cr, rr)]
    /\ tableReaders' = tableReaders \ {t}
    /\ dataReaders' = dataReaders \ {t}
    /\ UNCHANGED <<table, tableWriter, channel>>

\* a variant of EditGetWith whose guards live to the end of message_update
EditGetWith_holds(t, cr, rr) ==
    /\ task[t].kind = "edit"
    /\ task[t].pc = "get"
    /\ \E got \in TableRead(task[t].msg) :
        LET tk == [task[t] EXCEPT !.found = got, !.log = @ \o <<"get">>]
        IN  task' = [task EXCEPT ![t] =
                IF IsSome(got)
                THEN EditCompiled(tk, cr, rr)
                ELSE [tk EXCEPT !.pc = "done"]]
    /\ UNCHANGED <<table, dataReaders, tableReaders, tableWriter, channel>>

\* a variant of EditGetWith that takes the entry out of the map
EditGetWith_removes(t, cr, rr) ==
    /\ task[t].kind = "edit"
    /\ task[t].pc = "get"
    /\ \E got \in TableRead(task[t].msg) :
        LET tk == [task[t] EXCEPT !.found = got, !.log = @ \o <<"get">>]
        IN  task' = [task EXCEPT ![t] =
                IF IsSome(got)
                THEN EditCompiled(tk, cr, rr)
                ELSE [tk EXCEPT !.pc = "done"]]
    /\ table' = {p \in table : p[1] # task[t].msg}
    /\ tableReaders' = tableReaders \ {t}
    /\ dataReaders' = dataReaders \ {t}
    /\ UNCHANGED <<tableWriter, channel>>

\* lines 40-44: hashmap.get(&msg.id).copied(); the guards drop; if let Some(id)
\* then edit(..) runs up to its await
EditGetWith(t, cr, rr) ==
    /\ task[t].kind = "edit"
    /\ task[t].pc = "get"
    /\ \E got \in TableRead(task[t].msg) :
        LET tk == [task[t] EXCEPT !.found = got, !.log = @ \o <<"get">>]
        IN  task' = [task EXCEPT ![t] =
                IF IsSome(got)
                THEN EditCompiled(tk, cr, rr)
                ELSE [tk EXCEPT !.pc = "done"]]
    /\ tableReaders' = tableReaders \ {t}
    /\ dataReaders' = dataReaders \ {t}
    /\ UNCHANGED <<table, tableWriter, channel>>

EditGet(t) ==
    /\ task[t].pc = "get"
    /\ \E cr \in CompilerAnswers, rr \in SandboxAnswers : EditGetWith(t, cr, rr)

\* a variant of EditSend that posts the result as a new reply instead of
\* editing the recorded one
EditSend_posts(t) ==
    /\ task[t].kind = "edit"
    /\ task[t].pc = "send"
    /\ LET tk == task[t]
           call == <<"reply", tk.msg, tk.output>>
       IN  /\ channel' = channel @@
                    (NextId :> [replyTo |-> tk.msg, content |-> tk.output])
           /\ task' = [task EXCEPT ![t] =
                    [tk EXCEPT !.pc = "done",
                               !.log = tk.log \o <<"reply">>,
                               !.calls = tk.calls \o <<call>>]]
    /\ UNCHANGED <<table, dataReaders, tableReaders, tableWriter>>

\* edit, lines 123-126: msg.channel_id.edit_message(ctx, id, ..).await?
EditSend(t) ==
    /\ task[t].kind = "edit"
    /\ task[t].pc = "send"
    /\ LET tk == task[t]
           id == tk.found[2]
           call == <<"edit_message", id, tk.output>>
       IN  \/ /\ channel' = [channel EXCEPT ![id].content = tk.output]
              /\ task' = [task EXCEPT ![t] =
                    [tk EXCEPT !.pc = "done",
                               !.log = tk.log \o <<"edit_message">>,
                               !.calls = tk.calls \o <<call>>]]
           \/ /\ channel' = channel
              /\ task' = [task EXCEPT ![t] =
                    [tk EXCEPT !.pc = "done",
                               !.log = tk.log \o <<"edit_message">>,
                               !.calls = tk.calls \o <<call>>,
                               !.logged = Some(TransportError)]]
    /\ UNCHANGED <<table, dataReaders, tableReaders, tableWriter>>

----------------------------------------------------------------------------

Next ==
    \E t \in Tasks :
        \/ EvalStart(t) \/ EvalSend(t) \/ EvalLockData(t)
        \/ EvalLockTable(t) \/ EvalInsert(t)
        \/ EditStart(t) \/ EditLockData(t) \/ EditLockTable(t)
        \/ EditGet(t) \/ EditSend(t)

Spec == Init /\ [][Next]_vars

\* The runtime keeps polling a handler that can go on: every call it awaits
\* returns, and a lock call returns once the lock can be taken. Events
\* arrive or not as the gateway pleases.
HandlerStep(t) ==
    \/ EvalSend(t) \/ EvalLockData(t) \/ EvalLockTable(t) \/ EvalInsert(t)
    \/ EditLockData(t) \/ EditLockTable(t) \/ EditGet(t) \/ EditSend(t)

NextFair ==
    \E t \in 1 .. MaxFair :
        \/ EvalStart(t) \/ EvalSend(t) \/ EvalLockData(t)
        \/ EvalLockTable(t) \/ EvalInsert(t)
        \/ EditStart(t) \/ EditLockData(t) \/ EditLockTable(t)
        \/ EditGet(t) \/ EditSend(t)

SpecFair ==
    Init /\ [][NextFair]_vars /\ \A t \in 1 .. MaxFair : WF_vars(HandlerStep(t))

\* One ?eval message with any enumerated text; after a TextNoFence message
\* has been answered and recorded, edits of it with any enumerated text
PipeEdit(t) ==
    /\ task[t].pc = "idle"
    /\ task[1].pc = "done"
    /\ task[1].content = Some(TextNoFence)
    /\ IsSome(task[1].reply)
    /\ \E c \in PipeTexts : EditStartWith(t, 1, Some(c))

PipeEval(t) ==
    /\ task[t].pc = "idle"
    /\ \E c \in PipeNewTexts, cr \in PipeCompilerAnswers,
          rr \in PipeSandboxAnswers :
            EvalStartWith(t, c, cr, rr)

PipeEditGet(t) ==
    /\ task[t].pc = "get"
    /\ \E cr \in PipeCompilerAnswers, rr \in PipeSandboxAnswers :
            EditGetWith(t, cr, rr)

NextPipe ==
    \/ PipeEval(1)
    \/ EvalSend(1) \/ EvalLockData(1) \/ EvalLockTable(1) \/ EvalInsert(1)
    \/ PipeEdit(2) \/ EditLockData(2) \/ EditLockTable(2)
    \/ PipeEditGet(2) \/ EditSend(2)

SpecPipe == Init /\ [][NextPipe]_vars

\* One ?eval message that is answered and recorded, then edit events of it
\* whose contents differ (one with a code block, one without), handled
\* concurrently
EditsOfOneTexts == {TextB, TextNoFence}

EditsOfOne(t) ==
    /\ task[t].pc = "idle"
    /\ task[1].kind = "eval"
    /\ task[1].pc = "done"
    /\ IsSome(task[1].reply)
    /\ \E c \in EditsOfOneTexts : EditStartWith(t, 1, Some(c))

NextEdits ==
    \/ EvalStart(1) \/ EvalSend(1) \/ EvalLockData(1)
    \/ EvalLockTable(1) \/ EvalInsert(1)
    \/ \E t \in Tasks \ {1} :
            \/ EditsOfOne(t) \/ EditLockData(t) \/ EditLockTable(t)
            \/ EditGet(t) \/ EditSend(t)

SpecEdits == Init /\ [][NextEdits]_vars

----------------------------------------------------------------------------
\* run, lines 153-181, statement by statement. What the module given to run
\* does is its plan: the step at which wasmtime fails for it (or "none"),
\* the error it then gets, and the bytes the guest writes to its stdout.
\* refs counts the handles of the WritePipe, store tells whether the Store
\* (which owns the WasiCtx and so the cloned handle) is alive.

RunFailures == {"none", "add_to_linker", "module", "link", "get_default",
                "typed", "trap"}
RECURSIVE BytesUpTo(_)
BytesUpTo(n) ==
    IF n = 0 THEN {<<>>}
    ELSE LET shorter == BytesUpTo(n - 1)
         IN  shorter \cup {Append(s, b) : s \in shorter, b \in {"h", "nl", "xFF"}}
RunPlans ==
    [fail : RunFailures, err : RunErrors, bytes : BytesUpTo(MaxOut)]

\* String::from_utf8_lossy: an invalid byte becomes U+FFFD
from_utf8_lossy(vec) ==
    [i \in 1 .. Len(vec) |-> IF vec[i] = "xFF" THEN "fffd" ELSE vec[i]]

\* a ? of run that returns the Err: the locals drop, the store (if any) and
\* the writer with them
RunFailed(tk, op) ==
    [tk EXCEPT !.pc = "done", !.res = Err(tk.sandbox.plan.err),
               !.log = tk.log \o <<op>>,
               !.sandbox = [@ EXCEPT !.refs = 0, !.store = FALSE]]

RunAt(t, from) ==
    /\ task[t].kind = "run"
    /\ task[t].pc = from
    /\ UNCHANGED <<table, dataReaders, tableReaders, tableWriter, channel>>

\* compile calls run(&output), line 150
RunStart(t) ==
    /\ task[t].pc = "idle"
    /\ \E p \in RunPlans :
            task' = [task EXCEPT ![t] =
                [IdleTask EXCEPT !.kind = "run", !.pc = "linker",
                                 !.sandbox = [plan |-> p, refs |-> 0,
                                              store |-> FALSE, sink |-> <<>>]]]
    /\ UNCHANGED <<table, dataReaders, tableReaders, tableWriter, channel>>

\* lines 154-156: Engine::default, Linker::new, add_to_linker(..)?
RunLinker(t) ==
    /\ RunAt(t, "linker")
    /\ task' = [task EXCEPT ![t] =
            IF task[t].sandbox.plan.fail \in {"add_to_linker"}
            THEN RunFailed(task[t], "add_to_linker")
            ELSE [task[t] EXCEPT !.pc = "sink", !.log = @ \o <<"add_to_linker">>]]

\* lines 158-161: the WritePipe, and its clone given to the WasiCtx
RunSink(t) ==
    /\ RunAt(t, "sink")
    /\ task' = [task EXCEPT ![t] =
            [task[t] EXCEPT !.pc = "store", !.log = @ \o <<"new_in_memory">>,
                            !.sandbox = [@ EXCEPT !.refs = 2]]]

\* line 164: Store::new(&engine, wasi), at the start of the block
RunStore(t) ==
    /\ RunAt(t, "store")
    /\ task' = [task EXCEPT ![t] =
            [task[t] EXCEPT !.pc = "module", !.log = @ \o <<"Store::new">>,
                            !.sandbox = [@ EXCEPT !.store = TRUE]]]

\* line 165: Module::new(&engine, wat)?
RunModule(t) ==
    /\ RunAt(t, "module")
    /\ task' = [task EXCEPT ![t] =
            IF task[t].sandbox.plan.fail \in {"module"}
            THEN RunFailed(task[t], "Module::new")
            ELSE [task[t] EXCEPT !.pc = "link", !.log = @ \o <<"Module::new">>]]

\* line 167: linker.module(&mut store, "", &module)?
RunLink(t) ==
    /\ RunAt(t, "link")
    /\ task' = [task EXCEPT ![t] =
            IF task[t].sandbox.plan.fail \in {"link"}
            THEN RunFailed(task[t], "linker.module")
            ELSE [task[t] EXCEPT !.pc = "entry", !.log = @ \o <<"linker.module">>]]

\* lines 168-170: get_default(..)? and typed::<(), ()>(..)?
RunEntry(t) ==
    /\ RunAt(t, "entry")
    /\ task' = [task EXCEPT ![t] =
            IF task[t].sandbox.plan.fail \in {"get_default", "typed"}
            THEN RunFailed(task[t], "get_default")
            ELSE [task[t] EXCEPT !.pc = "call", !.log = @ \o <<"get_default">>]]

\* line 171: call(&mut store, ())?: the guest writes, and may trap
RunCall(t) ==
    /\ RunAt(t, "call")
    /\ task' = [task EXCEPT ![t] =
            IF task[t].sandbox.plan.fail \in {"trap"}
            THEN RunFailed(task[t], "call")
            ELSE [task[t] EXCEPT !.pc = "drop", !.log = @ \o <<"call">>,
                                 !.sandbox = [@ EXCEPT !.sink = task[t].sandbox.plan.bytes]]]

\* a variant of RunDropStore for a store that is not scoped by the block
RunDropStore_keeps(t) ==
    /\ RunAt(t, "drop")
    /\ task' = [task EXCEPT ![t] =
            [task[t] EXCEPT !.pc = "retrieve"]]

\* line 172: the block ends, the store drops and the WasiCtx with it
RunDropStore(t) ==
    /\ RunAt(t, "drop")
    /\ task' = [task EXCEPT ![t] =
            [task[t] EXCEPT !.pc = "retrieve", !.log = @ \o <<"drop(store)">>,
                            !.sandbox = [@ EXCEPT !.store = FALSE,
                                                  !.refs = @ - 1]]]

\* lines 174-177: try_into_inner().expect(..) panics unless the handle is
\* the only one
RunRetrieve(t) ==
    /\ RunAt(t, "retrieve")
    /\ task' = [task EXCEPT ![t] =
            IF task[t].sandbox.refs = 1
            THEN [task[t] EXCEPT !.pc = "decode",
                                 !.log = @ \o <<"try_into_inner">>,
                                 !.sandbox = [@ EXCEPT !.refs = 0]]
            ELSE [task[t] EXCEPT !.pc = "panicked",
                                 !.log = @ \o <<"try_into_inner">>]]

\* lines 179-180: from_utf8_lossy and Ok(output)
RunDecode(t) ==
    /\ RunAt(t, "decode")
    /\ task' = [task EXCEPT ![t] =
            [task[t] EXCEPT !.pc = "done",
                            !.log = @ \o <<"from_utf8_lossy">>,
                            !.res = Ok(from_utf8_lossy(task[t].sandbox.sink))]]

NextRun ==
    \/ RunStart(1) \/ RunLinker(1) \/ RunSink(1) \/ RunStore(1)
    \/ RunModule(1) \/ RunLink(1) \/ RunEntry(1) \/ RunCall(1)
    \/ RunDropStore(1) \/ RunRetrieve(1) \/ RunDecode(1)

SpecRun == Init /\ [][NextRun]_vars

----------------------------------------------------------------------------
\* Properties

Count(seq, x) == Cardinality({i \in 1 .. Len(seq) : seq[i] = x})
Has(seq, x) == \E i \in 1 .. Len(seq) : seq[i] = x
EvalTasks == {t \in Tasks : task[t].kind = "eval"}
EditTasks == {t \in Tasks : task[t].kind = "edit"}
\* the ids of the replies that eval invocations for message m got back
SentFor(m) == {task[e].reply[2] : e \in {x \in EvalTasks :
                    task[x].msg = m /\ IsSome(task[x].reply)}}
\* an edit invocation that found an entry and whose event carries content
EditRan(t) ==
    /\ task[t].kind = "edit"
    /\ IsSome(task[t].found)
    /\ IsSome(task[t].content)

\* C1: an edit event with content, for a message M whose entry M->R the
\* lookup found, runs the pipeline on the new content and makes exactly one
\* transport call: edit_message on R with the formatted result. It makes no
\* reply call, and the channel holds no message but the eval replies.
C1_EditReplacesReply ==
    /\ \A t \in Tasks : EditRan(t) =>
        LET tk == task[t]
            R == tk.found[2]
        IN  /\ R \in SentFor(tk.msg)
            /\ ~Has(tk.log, "reply")
            /\ Has(tk.log, "extract") /\ Has(tk.log, "format")
            /\ \E cr \in PipeCompilerAnswers, rr \in PipeSandboxAnswers :
                    tk.res = compile(tk.content[2], cr, rr).res
            /\ tk.pc = "send" => tk.calls = <<>>
            /\ tk.pc = "done" =>
                    tk.calls = << <<"edit_message", R, compile_otput(tk.res)>> >>
            /\ (tk.pc = "done" /\ ~IsSome(tk.logged)) =>
                    channel[R].content \in
                        {task[u].output : u \in {x \in Tasks : EditRan(x) /\
                                                    task[x].found = tk.found}}
    /\ DOMAIN channel = UNION {SentFor(m) : m \in Tasks}

\* C1 witness: an edit has replaced the content of R, which differs from what
\* the eval invocation sent
C1_Witness ==
    \E t \in Tasks, e \in Tasks :
        /\ EditRan(t) /\ task[t].pc = "done" /\ ~IsSome(task[t].logged)
        /\ task[e].kind = "eval" /\ task[e].reply = task[t].found
        /\ channel[task[t].found[2]].content = task[t].output
        /\ task[t].output # task[e].output
        /\ Cardinality(DOMAIN channel) = 1

\* C2 (the claim as stated, for events that carry content): every finished
\* edit invocation whose event was handled after the reply to its message
\* had been sent has called edit_message
C2_NoEditDropped ==
    \A t \in Tasks :
        (/\ task[t].kind = "edit" /\ task[t].pc = "done"
         /\ task[t].answered /\ IsSome(task[t].content))
        => Has(task[t].log, "edit_message")

\* C3: an edit event whose lookup finds no entry makes no compiler call, no
\* sandbox run, no reply call and no edit_message call: the handler is done
\* right after the get
C3_UntrackedEditDoesNothing ==
    \A t \in Tasks :
        (task[t].kind = "edit" /\ Has(task[t].log, "get")
            /\ ~IsSome(task[t].found))
        => /\ task[t].log = <<"get">>
           /\ task[t].stages = <<>>
           /\ task[t].calls = <<>>
           /\ task[t].pc = "done"

\* C3 witness: an edit of a message that never was a command, and an edit of
\* a command message whose entry was not there, both done
C3_Witness ==
    \E t \in Tasks, u \in Tasks :
        /\ task[t].kind = "edit" /\ task[t].pc = "done"
        /\ task[t].msg = OtherMsg /\ task[t].log = <<"get">>
        /\ task[u].kind = "edit" /\ task[u].pc = "done"
        /\ task[u].msg # OtherMsg /\ task[u].log = <<"get">>
        /\ IsSome(task[u].content)

\* What the claims call a failed extraction, stated on the text itself
StartsWith(s, p) ==
    Len(s) >= Len(p) /\ \A i \in 1 .. Len(p) : s[i] = p[i]
EndsWith(s, p) ==
    Len(s) >= Len(p) /\ \A i \in 1 .. Len(p) : s[Len(s) - Len(p) + i] = p[i]
Drop(s, n) == [i \in 1 .. (Len(s) - n) |-> s[i + n]]
LeadingWs(s) ==
    CHOOSE n \in 0 .. Len(s) :
        /\ \A i \in 1 .. n : s[i] \in Whitespace
        /\ n < Len(s) => s[n + 1] \notin Whitespace
\* the text after "?eval" and the whitespace that follows it
Remainder(msg) ==
    LET r == Drop(msg, Len(EvalPrefix)) IN Drop(r, LeadingWs(r))
MissingPrefix(msg) == ~StartsWith(msg, EvalPrefix)
MissingFence(msg) ==
    \/ ~StartsWith(Remainder(msg), Fence)
    \/ ~EndsWith(Remainder(msg), Fence)
ErrorReply(e) == ErrorHead \o e \o FenceTail

\* C4 (the claim as stated): an eval invocation whose text has no
\* well-formed fenced block makes no reply call
C4_SilentOnExtractionFailure ==
    \A t \in Tasks :
        (task[t].kind = "eval" /\ MissingFence(task[t].content[2]))
        => ~Has(task[t].log, "reply")

\* C4 (amended): an eval invocation whose text has no well-formed fenced
\* block calls neither the compiler nor the sandbox and, once past its send,
\* has made exactly one reply call, to its message, with the error template
\* around "Failed to parse a code block"
C4_ErrorReplyOnExtractionFailure ==
    \A t \in Tasks :
        (task[t].kind = "eval" /\ MissingFence(task[t].content[2]))
        => LET tk == task[t]
           IN  /\ ~Has(tk.log, "compile_buffer") /\ ~Has(tk.log, "run")
               /\ tk.pc # "send" =>
                    tk.calls = << <<"reply", tk.msg, ErrorReply(ParseError)>> >>

\* C4 witness: the error reply to a message without a fence is in the channel
C4_Witness ==
    /\ task[1].kind = "eval" /\ task[1].content = Some(TextNoFence)
    /\ task[1].pc = "done" /\ IsSome(task[1].reply)
    /\ channel[task[1].reply[2]] =
            [replyTo |-> 1, content |-> ErrorReply(ParseError)]
    /\ task[2].pc = "idle"

\* C5: on the eval path and on the edit path, for a text that misses the
\* "?eval" prefix, the opening fence or the closing fence, compile returns
\* the parse error having entered no stage but the extraction: the compiler
\* is not called and the sandbox is not run
C5_NoCompileWithoutSource ==
    \A t \in Tasks :
        (/\ Has(task[t].log, "extract")
         /\ MissingPrefix(task[t].content[2]) \/ MissingFence(task[t].content[2]))
        => /\ task[t].res = Err(ParseError)
           /\ task[t].stages = << <<"extract", Err(ParseError)>> >>
           /\ ~Has(task[t].log, "compile_buffer")
           /\ ~Has(task[t].log, "run")

\* C5 witness: an eval of a text without a fence and an edit whose text has
\* both fences but no prefix, each past compile
C5_Witness ==
    /\ task[1].kind = "eval" /\ MissingFence(task[1].content[2])
    /\ Has(task[1].log, "extract")
    /\ task[2].kind = "edit" /\ Has(task[2].log, "extract")
    /\ MissingPrefix(task[2].content[2])
    /\ StartsWith(task[2].content[2], Fence)
    /\ EndsWith(task[2].content[2], Fence)
    /\ Len(task[2].content[2]) > 6

\* C6: the table never loses or changes an entry, and holds at most one
\* value per key (new messages have distinct ids)
C6_TableOnlyGrows ==
    [][/\ \A p \in table : p \in table'
       /\ \A p \in table', q \in table' : p[1] = q[1] => p = q]_vars

\* C6 witness: two entries, for two messages
C6_Witness ==
    \E p \in table, q \in table : p[1] # q[1] /\ p[2] # q[2]

\* C7: every entry M->R was inserted by an eval invocation for M whose reply
\* call returned R; a finished eval invocation whose reply call succeeded has
\* inserted exactly once, and one whose reply call failed has not touched
\* the table
C7_InsertOnlyAfterReply ==
    /\ \A p \in table :
        \E t \in Tasks :
            /\ task[t].kind = "eval" /\ task[t].msg = p[1]
            /\ task[t].reply = Some(p[2])
            /\ Has(task[t].log, "insert")
            /\ p[2] \in DOMAIN channel /\ channel[p[2]].replyTo = p[1]
    /\ \A t \in Tasks : (task[t].kind = "eval" /\ task[t].pc = "done") =>
        IF IsSome(task[t].reply)
        THEN /\ Count(task[t].log, "insert") = 1
             /\ ~IsSome(task[t].logged)
        ELSE /\ ~Has(task[t].log, "insert")
             /\ task[t].logged = Some(TransportError)
             /\ \A p \in table : p[1] # task[t].msg

\* C7 witness: one eval invocation has recorded its reply, another one's
\* reply call failed
C7_Witness ==
    \E t \in Tasks, u \in Tasks :
        /\ task[t].kind = "eval" /\ task[t].pc = "done"
        /\ IsSome(task[t].reply) /\ <<t, task[t].reply[2]>> \in table
        /\ task[u].kind = "eval" /\ task[u].pc = "done"
        /\ ~IsSome(task[u].reply)

\* C8: once every handler has finished, the table holds the entry of every
\* eval invocation whose reply was sent, and nothing else; and a lookup of M
\* returns none or the reply to M, whenever it runs
C8_NoLostInsertNoTornLookup ==
    /\ (\A t \in Tasks : task[t].pc \in {"idle", "done"}) =>
            table = {<<task[t].msg, task[t].reply[2]>> :
                        t \in {x \in EvalTasks : IsSome(task[x].reply)}}
    /\ \A t \in Tasks :
        (task[t].kind = "edit" /\ IsSome(task[t].found))
        => task[t].found[2] \in SentFor(task[t].msg)

\* C8 witness: two eval invocations have recorded their replies, and an edit
\* event that arrived before the reply to its message was sent has found it
C8_Witness ==
    /\ \A t \in Tasks : task[t].pc = "done"
    /\ Cardinality(table) = 2
    /\ \E t \in Tasks :
        /\ task[t].kind = "edit" /\ ~task[t].answered
        /\ IsSome(task[t].found)

\* C9: the stages of an eval invocation happen in the order extraction,
\* compiler, sandbox, formatting, reply, insert, none before the one it
\* follows has happened; an entry for M is in the table only after the reply
\* to M was sent
StageOrder == <<"extract", "compile_buffer", "run", "format", "reply", "insert">>
Rank(op) == CHOOSE i \in 1 .. Len(StageOrder) : StageOrder[i] = op
C9_StagesInOrder ==
    /\ \A t \in Tasks : task[t].kind = "eval" =>
        LET log == task[t].log
        IN  /\ \A i \in 1 .. Len(log) : Has(StageOrder, log[i])
            /\ \A i \in 1 .. Len(log), j \in 1 .. Len(log) :
                    i < j => Rank(log[i]) < Rank(log[j])
            /\ Has(log, "compile_buffer") => Has(log, "extract")
            /\ Has(log, "run") => Has(log, "compile_buffer")
            /\ Has(log, "format") => Has(log, "extract")
            /\ Has(log, "reply") => Has(log, "format")
            /\ Has(log, "insert") => Has(log, "reply")
            /\ (\E p \in table : p[1] = task[t].msg) => Has(log, "insert")
    /\ \A p \in table : RepliesTo(p[1]) # {}

\* C9 witness: an eval invocation that went through every stage
C9_Witness ==
    \E t \in Tasks : task[t].kind = "eval" /\ task[t].log = StageOrder

\* C10: the text handed to the transport is the success template around the
\* captured text when the three stages succeeded, and otherwise the error
\* template around the error of the first stage that failed, which is the
\* last stage entered (after a compile error the sandbox is not run); it
\* starts with exactly one of the two templates' heads
C10_OneTemplatePerOutcome ==
    \A t \in Tasks : Has(task[t].log, "format") =>
        LET st == task[t].stages
            out == task[t].output
            allOk == \A i \in 1 .. Len(st) : IsOk(st[i][2])
        IN  /\ Len(st) \in 1 .. 3
            /\ \A i \in 1 .. Len(st) : st[i][1] = StageOrder[i]
            /\ \A i \in 1 .. (Len(st) - 1) : IsOk(st[i][2])
            /\ allOk => Len(st) = 3
            /\ allOk => out = ResultHead \o st[3][2][2] \o FenceTail
            /\ ~allOk => out = ErrorHead \o st[Len(st)][2][2] \o FenceTail
            /\ StartsWith(out, ResultHead) # StartsWith(out, ErrorHead)
            /\ (StartsWith(out, ResultHead) <=> allOk)

\* C10 witness: an error reply for a failed extraction has been edited into
\* a result whose captured text is itself a fence
C10_Witness ==
    /\ task[1].output = ErrorReply(ParseError)
    /\ task[2].kind = "edit" /\ task[2].pc = "done"
    /\ IsSome(task[2].found) /\ Len(task[2].stages) = 3
    /\ task[2].stages[3] = <<"run", Ok(Fence)>>
    /\ task[2].output = ResultHead \o Fence \o FenceTail
    /\ channel[task[2].found[2]].content = task[2].output

\* Scenario A: the sandbox has captured "hi" and a newline
HiLine == <<"h", "i", "nl">>
CapturedHi(t) ==
    /\ Has(task[t].log, "format")
    /\ Len(task[t].stages) = 3
    /\ task[t].stages[3] = <<"run", Ok(HiLine)>>
HiReplyOneNewline ==
    <<"C", "o", "m", "p", "i", "l", "a", "t", "i", "o", "n", "sp",
      "r", "e", "s", "u", "l", "t", ":", "nl", "bt", "bt", "bt", "nl",
      "h", "i", "nl", "bt", "bt", "bt">>
HiReplyTwoNewlines ==
    <<"C", "o", "m", "p", "i", "l", "a", "t", "i", "o", "n", "sp",
      "r", "e", "s", "u", "l", "t", ":", "nl", "bt", "bt", "bt", "nl",
      "h", "i", "nl", "nl", "bt", "bt", "bt">>

\* C11 (the claim as stated): when the sandbox has captured "hi\n", the text
\* for the transport ends "hi", one newline, and the closing fence
C11_HiReplySingleNewline ==
    \A t \in Tasks : CapturedHi(t) => task[t].output = HiReplyOneNewline

\* C11 (amended): when the sandbox has captured "hi\n", the text for the
\* transport, and of the call made with it, ends "hi", the captured newline,
\* the template's newline, and the closing fence
C11_HiReplyKeepsBothNewlines ==
    \A t \in Tasks : CapturedHi(t) =>
        /\ task[t].output = HiReplyTwoNewlines
        /\ \A i \in 1 .. Len(task[t].calls) :
                task[t].calls[i][3] = HiReplyTwoNewlines

\* C11 witness: the reply to a message whose program printed "hi\n"
C11_Witness ==
    /\ task[1].kind = "eval" /\ CapturedHi(1) /\ IsSome(task[1].reply)
    /\ channel[task[1].reply[2]].content = HiReplyTwoNewlines

\* the text between an opening and a closing fence that do not overlap
Interior(rem) == [i \in 1 .. (Len(rem) - 2 * Len(Fence)) |-> rem[i + Len(Fence)]]
Extracted(t) == task[t].stages[1]

\* C12 (the claim as stated): extraction succeeds exactly when the text
\* after "?eval" and the whitespace that follows it starts with a fence and
\* ends with a fence (texts of 3, 4 or 5 backticks included), and fails with
\* the parse error otherwise
C12_FencedAtBothEnds ==
    \A t \in Tasks : Has(task[t].log, "extract") =>
        LET msg == task[t].content[2]
        IN  IF ~MissingPrefix(msg) /\ ~MissingFence(msg)
            THEN IsOk(Extracted(t)[2])
            ELSE Extracted(t) = <<"extract", Err(ParseError)>>

\* C12 (amended): extraction succeeds exactly when the text starts with
\* "?eval" and what follows, after its leading whitespace, starts with a
\* fence and ends with a second fence that does not overlap the first (so it
\* has at least six characters); the source is then the text between the two
\* fences, verbatim; in every other case, texts of 3, 4 or 5 backticks
\* included, it fails with the parse error
C12_TwoSeparateFences ==
    \A t \in Tasks : Has(task[t].log, "extract") =>
        LET msg == task[t].content[2]
        IN  IF /\ ~MissingPrefix(msg) /\ ~MissingFence(msg)
               /\ Len(Remainder(msg)) >= 2 * Len(Fence)
            THEN Extracted(t) = <<"extract", Ok(Interior(Remainder(msg)))>>
            ELSE Extracted(t) = <<"extract", Err(ParseError)>>

\* C12 witness: an edit whose fenced source is one space, kept as it is
C12_Witness ==
    /\ task[2].kind = "edit" /\ Has(task[2].log, "extract")
    /\ task[2].content =
        Some(EvalPrefix \o <<"nl", "sp">> \o Fence \o <<"sp">> \o Fence)
    /\ Extracted(2) = <<"extract", Ok(<<"sp">>)>>

\* C13: whenever run is at try_into_inner the store has been dropped and the
\* handle is the only one, so the expect never panics; and for a module that
\* makes any step of wasmtime fail, run returns the Err without having
\* reached try_into_inner
C13_SoleSinkReference ==
    \A t \in Tasks : task[t].kind = "run" =>
        LET tk == task[t]
        IN  /\ tk.pc = "retrieve" => (~tk.sandbox.store /\ tk.sandbox.refs = 1)
            /\ tk.pc # "panicked"
            /\ Has(tk.log, "try_into_inner") => tk.sandbox.plan.fail = "none"
            /\ (tk.pc = "done" /\ tk.sandbox.plan.fail # "none") =>
                    /\ tk.res = Err(tk.sandbox.plan.err)
                    /\ ~Has(tk.log, "try_into_inner")
            /\ (tk.pc = "done" /\ tk.sandbox.plan.fail = "none") =>
                    /\ IsOk(tk.res)
                    /\ Has(tk.log, "try_into_inner")

\* C13 witness: run has returned the decoded output of a guest that wrote an
\* invalid byte
C13_Witness ==
    /\ task[1].kind = "run" /\ task[1].pc = "done"
    /\ task[1].sandbox.sink = <<"h", "xFF">>
    /\ task[1].res = Ok(<<"h", "fffd">>)
    /\ Has(task[1].log, "try_into_inner")

TransportFailed(t) == task[t].logged = Some(TransportError)

\* C14: the step in which a send-reply or edit-message call fails makes that
\* one call, changes neither the table nor the channel, ends the handler with
\* no lock held and the error logged; the handler takes no step afterwards
\* (no second attempt, no insert)
C14_TransportFailureOnlyLogged ==
    [][\A t \in Tasks :
        /\ (~TransportFailed(t) /\ TransportFailed(t)') =>
                /\ table' = table
                /\ channel' = channel
                /\ task'[t].pc = "done"
                /\ Len(task'[t].calls) = 1
                /\ task'[t].calls[1][1] \in {"reply", "edit_message"}
                /\ task'[t].reply = None
                /\ ~Has(task'[t].log, "insert")
                /\ t \notin (dataReaders' \cup tableReaders' \cup tableWriter')
        /\ TransportFailed(t) => task'[t] = task[t]
    ]_vars

\* C14 witness: the reply to message 1 failed; message 2 was answered and
\* recorded, and an edit of it rewrote its reply
C14_Witness ==
    /\ task[1].kind = "eval" /\ TransportFailed(1)
    /\ Get(table, 1) = None
    /\ task[2].kind = "eval" /\ task[2].pc = "done"
    /\ IsSome(task[2].reply) /\ Get(table, 2) = task[2].reply
    /\ task[3].kind = "edit" /\ task[3].pc = "done" /\ task[3].msg = 2
    /\ task[3].logged = None /\ Has(task[3].log, "edit_message")
    /\ channel[task[2].reply[2]].content = task[3].output

Stepped(t) == task'[t] # task[t]
Inserted(t) ==
    /\ task[t].kind = "eval"
    /\ task'[t].log = task[t].log \o <<"insert">>

\* C15: no step of message_update or edit changes the table, whatever its
\* outcome; the value a lookup of a key returns changes only in a step in
\* which eval inserts
C15_EditPathReadsOnly ==
    [][/\ \A t \in Tasks :
            (task'[t].kind = "edit" /\ Stepped(t)) => table' = table
       /\ (\E k \in {OtherMsg} \cup Tasks : Get(table', k) # Get(table, k)) =>
            \E t \in Tasks : Stepped(t) /\ Inserted(t)
    ]_vars

\* C15 witness: two edits of message 1 have finished, one without content and
\* one whose edit-message call failed; both found the reply and the entry is
\* still in the table
C15_Witness ==
    /\ task[1].kind = "eval" /\ IsSome(task[1].reply)
    /\ task[2].kind = "edit" /\ task[2].msg = 1 /\ task[2].pc = "done"
    /\ task[3].kind = "edit" /\ task[3].msg = 1 /\ task[3].pc = "done"
    /\ task[2].found = task[1].reply /\ task[3].found = task[1].reply
    /\ task[2].logged = Some(ContentError)
    /\ task[3].logged = Some(TransportError)
    /\ Get(table, 1) = task[1].reply

Holds(t) == t \in (dataReaders \cup tableReaders \cup tableWriter)

\* C16: a handler that holds the data lock or a table guard is between its
\* lock calls and its one map operation: an edit handler has then run no
\* pipeline stage and made no transport call, an eval handler has its reply
\* already and nothing after it; so no guard is held at a pipeline stage or
\* at a transport call, and each handler makes a single get or insert
C16_LocksOnlyAroundMapAccess ==
    \A t \in Tasks :
        LET tk == task[t]
        IN  /\ Holds(t) => tk.pc \in {"lockTable", "get", "insert"}
            /\ (Holds(t) /\ tk.kind = "edit") =>
                    /\ tk.stages = <<>> /\ tk.calls = <<>> /\ tk.log = <<>>
            /\ (Holds(t) /\ tk.kind = "eval") =>
                    /\ IsSome(tk.reply)
                    /\ tk.log[Len(tk.log)] = "reply"
                    /\ Len(tk.calls) = 1
            /\ tk.pc \in {"send", "done", "idle"} => ~Holds(t)
            /\ t \in (tableReaders \cup tableWriter) => t \in dataReaders
            /\ Count(tk.log, "get") + Count(tk.log, "insert") <= 1

\* C16 witness: an edit handler awaits its edit-message call with no guard,
\* while an eval handler holds the write guard for its insert
C16_Witness ==
    /\ task[3].kind = "edit" /\ task[3].pc = "send"
    /\ Len(task[3].stages) = 3 /\ ~Holds(3)
    /\ task[2].kind = "eval" /\ task[2].pc = "insert"
    /\ tableWriter = {2}

\* C17: under fair scheduling every handler that has started finishes, and
\* holds no lock when it has
C17_HandlersTerminate ==
    \A t \in Tasks :
        (task[t].pc # "idle") ~> (task[t].pc = "done" /\ ~Holds(t))

\* C17 witness: an eval handler and an edit handler have gone through the
\* locks and finished, and every lock is free
C17_Witness ==
    /\ task[1].kind = "eval" /\ task[1].pc = "done"
    /\ Has(task[1].log, "insert")
    /\ task[2].kind = "edit" /\ task[2].pc = "done"
    /\ Has(task[2].log, "edit_message")
    /\ dataReaders = {} /\ tableReaders = {} /\ tableWriter = {}

EditedOk(t) ==
    /\ task[t].kind = "edit" /\ task[t].pc = "done"
    /\ Has(task[t].log, "edit_message") /\ task[t].logged = None

\* C18: when every handler has finished and two or more edits of the tracked
\* message 1 rewrote its reply, the reply holds the text computed from the
\* content of the edit event that arrived last
C18_LaterEditWins ==
    LET edits == {t \in Tasks : EditedOk(t) /\ task[t].msg = 1}
        last == CHOOSE u \in edits : \A t \in edits : t <= u
    IN  ((\A t \in Tasks : task[t].pc \in {"idle", "done"})
            /\ Cardinality(edits) >= 2) =>
                channel[task[last].found[2]].content = task[last].output

\* C19: an edit event without content for a message whose reply was found
\* ends its handler in the step of the lookup: no pipeline stage has run, no
\* transport call is made, the channel is as it was, and 'Failed to get the
\* msg content' is logged
C19_NoContentOnlyLogged ==
    [][\A t \in Tasks :
        LET tk == task'[t]
        IN  (tk.kind = "edit" /\ tk.content = None /\ IsSome(tk.found)) =>
                /\ tk.pc = "done"
                /\ tk.logged = Some(ContentError)
                /\ tk.stages = <<>> /\ tk.res = None /\ tk.output = <<>>
                /\ tk.calls = <<>>
                /\ tk.log = <<"get">>
                /\ Stepped(t) => (channel' = channel /\ table' = table)
    ]_vars

\* C19 witness: an edit of message 1 without content has been handled; the
\* reply to message 1 still holds the result of the original message
C19_Witness ==
    /\ task[1].kind = "eval" /\ IsSome(task[1].reply)
    /\ task[2].kind = "edit" /\ task[2].msg = 1 /\ task[2].content = None
    /\ task[2].found = task[1].reply /\ task[2].pc = "done"
    /\ task[2].logged = Some(ContentError)
    /\ \A t \in Tasks : task[t].pc \in {"idle", "done"}
    /\ channel[task[1].reply[2]].content = task[1].output

====
